---- MODULE Spec2Model ----
(***************************************************************************)
(* Model of cth-analysis-module.js (CTHmodules): indicator normalization,  *)
(* dimension aggregation, CTH score, epoch reference lookup and the        *)
(* completion pipeline of analyzeEventCTH.                                 *)
(*                                                                         *)
(* Numbers.  A JavaScript value is a record [k, v]: k is the kind          *)
(* ("undef", "null", "nan", "str" for a non-numeric string, "num" for a    *)
(* finite number, "inf"/"ninf" for +/-Infinity) and v the magnitude of a   *)
(* finite number.  Finite numbers are fixed point integers:                *)
(*   gdpPerCapita, averageIncome        in units of 100                    *)
(*   giniIndex, literacyRate, urbanizationRate   in units of 0.01          *)
(*   birthRate                          in units of 0.001                  *)
(*   politicalEventsCount, lifeExpectancy, populationDensity  in units of 1*)
(*   normalized values and CTH scores   in units of 1/ONE                  *)
(*   weights                            in units of 0.01                   *)
(* Division rounds down.                                                   *)
(***************************************************************************)
EXTENDS Integers, Sequences, FiniteSets, TLC

\* One (1.0) in the fixed point representation of normalized values and scores.
ONE == 1000

\* ---------------------------------------------------------------- values

Num(n) == [k |-> "num", v |-> n]
Undefined == [k |-> "undef", v |-> 0]
Null == [k |-> "null", v |-> 0]
NaN == [k |-> "nan", v |-> 0]
Str == [k |-> "str", v |-> 0]
PosInf == [k |-> "inf", v |-> 0]
NegInf == [k |-> "ninf", v |-> 0]

\* value === undefined || value === null
IsMissing(x) == x.k \in {"undef", "null"}

\* typeof value === 'number' && !isNaN(value)
IsValidNumber(x) == x.k \in {"num", "inf", "ninf"}

\* ToNumber as applied by the arithmetic operators *, / and (for non-strings) +
ToNumber(x) ==
    CASE x.k = "null" -> Num(0)
      [] x.k \in {"undef", "str", "nan"} -> NaN
      [] OTHER -> x

Sign(x) ==
    CASE x.k = "inf" -> 1
      [] x.k = "ninf" -> -1
      [] x.v > 0 -> 1
      [] x.v < 0 -> -1
      [] OTHER -> 0

\* a + b; a non-numeric string operand concatenates, and the concatenation
\* is not a number in the divisions that follow
JsAdd(a, b) ==
    LET x == ToNumber(a)
        y == ToNumber(b)
    IN  CASE x.k = "nan" \/ y.k = "nan" -> NaN
          [] x.k = "num" /\ y.k = "num" -> Num(x.v + y.v)
          [] x.k = "num" -> y
          [] y.k = "num" -> x
          [] x.k = y.k -> x
          [] OTHER -> NaN

\* a * b, the product of two fixed point numbers kept unscaled
JsMul(a, b) ==
    LET x == ToNumber(a)
        y == ToNumber(b)
    IN  CASE x.k = "nan" \/ y.k = "nan" -> NaN
          [] x.k = "num" /\ y.k = "num" -> Num(x.v * y.v)
          [] Sign(x) * Sign(y) = 0 -> NaN
          [] Sign(x) * Sign(y) > 0 -> PosInf
          [] OTHER -> NegInf

\* (a * scale) / b
JsDiv(a, b, scale) ==
    LET x == ToNumber(a)
        y == ToNumber(b)
    IN  CASE x.k = "nan" \/ y.k = "nan" -> NaN
          [] x.k = "num" /\ y.k = "num" /\ y.v # 0 -> Num((x.v * scale) \div y.v)
          [] x.k = "num" /\ y.k = "num" /\ x.v = 0 -> NaN
          [] x.k = "num" /\ y.k = "num" -> IF x.v > 0 THEN PosInf ELSE NegInf
          [] x.k = "num" -> Num(0)
          [] y.k = "num" -> IF Sign(x) * (IF y.v < 0 THEN -1 ELSE 1) > 0 THEN PosInf ELSE NegInf
          [] OTHER -> NaN

\* a > b
JsGt(a, b) ==
    LET x == ToNumber(a)
        y == ToNumber(b)
    IN  CASE x.k = "nan" \/ y.k = "nan" -> FALSE
          [] x.k = "num" /\ y.k = "num" -> x.v > y.v
          [] x.k = "inf" -> y.k # "inf"
          [] y.k = "ninf" -> x.k # "ninf"
          [] OTHER -> FALSE

\* Math.min(a, b)
MathMin(a, b) ==
    LET x == ToNumber(a)
        y == ToNumber(b)
    IN  CASE x.k = "nan" \/ y.k = "nan" -> NaN
          [] JsGt(x, y) -> y
          [] OTHER -> x

\* Math.max(a, b)
MathMax(a, b) ==
    LET x == ToNumber(a)
        y == ToNumber(b)
    IN  CASE x.k = "nan" \/ y.k = "nan" -> NaN
          [] JsGt(y, x) -> y
          [] OTHER -> x

\* --------------------------------------------- configuration and reference data

allIndicatorNames ==
    << "gdpPerCapita", "giniIndex", "politicalEventsCount", "averageIncome",
       "literacyRate", "lifeExpectancy", "birthRate", "populationDensity", "urbanizationRate" >>

Indicators == { allIndicatorNames[n] : n \in 1..Len(allIndicatorNames) }

periods == << "before", "prelude", "during", "transition", "after" >>

Periods == { periods[n] : n \in 1..Len(periods) }

DEFAULT_CTH_WEIGHTS ==
    [w_e |-> Num(40), w_s |-> Num(30), w_a |-> Num(15), w_p |-> Num(15)]

INDICATOR_LIMITS ==
    [gdpPerCapita |-> [min |-> 5, max |-> 300],
     giniIndex |-> [min |-> 20, max |-> 70],
     politicalEventsCount |-> [min |-> 0, max |-> 15],
     averageIncome |-> [min |-> 1, max |-> 150],
     literacyRate |-> [min |-> 5, max |-> 100],
     lifeExpectancy |-> [min |-> 25, max |-> 85],
     birthRate |-> [min |-> 5, max |-> 60],
     populationDensity |-> [min |-> 1, max |-> 2000],
     urbanizationRate |-> [min |-> 5, max |-> 100]]

Snapshot(gdp, gini, events, income, literacy, life, birth, density, urban) ==
    [gdpPerCapita |-> Num(gdp), giniIndex |-> Num(gini), politicalEventsCount |-> Num(events),
     averageIncome |-> Num(income), literacyRate |-> Num(literacy), lifeExpectancy |-> Num(life),
     birthRate |-> Num(birth), populationDensity |-> Num(density), urbanizationRate |-> Num(urban)]

\* the epochs in the order of the table's keys
EPOCH_DATA_REFERENCE ==
    << [key |-> "antiquity", startYear |-> -3000, endYear |-> 500,
        indicators |-> Snapshot(7, 60, 5, 1, 10, 30, 40, 5, 10)],
       [key |-> "middleAges", startYear |-> 501, endYear |-> 1500,
        indicators |-> Snapshot(9, 55, 7, 2, 15, 35, 35, 10, 15)],
       [key |-> "earlyModern", startYear |-> 1501, endYear |-> 1800,
        indicators |-> Snapshot(15, 50, 8, 3, 25, 40, 30, 20, 25)],
       [key |-> "industrialRevolution", startYear |-> 1801, endYear |-> 1900,
        indicators |-> Snapshot(30, 48, 10, 6, 40, 45, 25, 50, 40)],
       [key |-> "20thCenturyEarly", startYear |-> 1901, endYear |-> 1950,
        indicators |-> Snapshot(70, 45, 12, 15, 70, 55, 20, 100, 60)],
       [key |-> "20thCenturyLate", startYear |-> 1951, endYear |-> 2000,
        indicators |-> Snapshot(150, 40, 10, 40, 85, 70, 15, 200, 75)],
       [key |-> "contemporary", startYear |-> 2001, endYear |-> 2025,
        indicators |-> Snapshot(250, 35, 8, 80, 95, 78, 10, 300, 85)] >>

FallbackSnapshot == Snapshot(100, 45, 8, 30, 70, 60, 20, 100, 50)

\* the module-level object EPOCH_DATA_REFERENCE as it stands (a const binding
\* of a mutable object)
VARIABLE epochTable

\* a year passed to getEpochDataForYear is counted in units of 1 / YearUnit
YearUnit == 2

\* ---------------------------------------------------------- helper functions

\* normalizeIndicator without the clamp to [min,max]
normalizeIndicator_NoClamp(value, min, max) ==
    IF IsMissing(value) \/ ~IsValidNumber(value)
    THEN Num(0)
    ELSE IF max - min = 0
         THEN Num(0)
         ELSE Num(((value.v - min) * ONE) \div (max - min))

\* normalizeIndicator clamping to max only
normalizeIndicator_NoLowerClamp(value, min, max) ==
    IF IsMissing(value) \/ ~IsValidNumber(value)
    THEN Num(0)
    ELSE LET clampedValue == MathMin(Num(max), value)
         IN  IF max - min = 0
             THEN Num(0)
             ELSE IF clampedValue.k = "num"
                  THEN Num(((clampedValue.v - min) * ONE) \div (max - min))
                  ELSE clampedValue

\* normalizeIndicator without the guard for max - min === 0: 0 / 0
normalizeIndicator_NoDegenerateGuard(value, min, max) ==
    IF IsMissing(value) \/ ~IsValidNumber(value)
    THEN Num(0)
    ELSE LET clampedValue == MathMax(Num(min), MathMin(Num(max), value))
         IN  JsDiv(Num(clampedValue.v - min), Num(max - min), ONE)

normalizeIndicator(value, min, max) ==
    IF IsMissing(value) \/ ~IsValidNumber(value)
    THEN Num(0)
    ELSE LET clampedValue == MathMax(Num(min), MathMin(Num(max), value))
         IN  IF max - min = 0
             THEN Num(0)
             ELSE Num(((clampedValue.v - min) * ONE) \div (max - min))

\* applyLimits with Math.min and Math.max exchanged
applyLimits_SwappedMinMax(indicatorName, value) ==
    LET limits == INDICATOR_LIMITS[indicatorName]
    IN  IF indicatorName \in DOMAIN INDICATOR_LIMITS /\ IsValidNumber(value)
        THEN MathMin(Num(limits.min), MathMax(Num(limits.max), value))
        ELSE value

\* applyLimits clamping to the lower half of the domain
applyLimits_HalfDomain(indicatorName, value) ==
    LET limits == INDICATOR_LIMITS[indicatorName]
    IN  IF indicatorName \in DOMAIN INDICATOR_LIMITS /\ IsValidNumber(value)
        THEN MathMax(Num(limits.min),
                     MathMin(Num((limits.min + limits.max) \div 2), value))
        ELSE value

applyLimits(indicatorName, value) ==
    LET limits == INDICATOR_LIMITS[indicatorName]
    IN  IF indicatorName \in DOMAIN INDICATOR_LIMITS /\ IsValidNumber(value)
        THEN MathMax(Num(limits.min), MathMin(Num(limits.max), value))
        ELSE value

\* the scan with year < epoch.endYear
RECURSIVE EpochScan_ExclusiveEnd(_, _)
EpochScan_ExclusiveEnd(year, n) ==
    IF n > Len(epochTable)
    THEN FallbackSnapshot
    ELSE LET epoch == epochTable[n]
         IN  IF year >= epoch.startYear * YearUnit /\ year < epoch.endYear * YearUnit
             THEN epoch.indicators
             ELSE EpochScan_ExclusiveEnd(year, n + 1)

\* the scan returning the last epoch when no interval matches
RECURSIVE EpochScan_LastEpochFallback(_, _)
EpochScan_LastEpochFallback(year, n) ==
    IF n > Len(epochTable)
    THEN epochTable[Len(epochTable)].indicators
    ELSE LET epoch == epochTable[n]
         IN  IF year >= epoch.startYear * YearUnit /\ year <= epoch.endYear * YearUnit
             THEN epoch.indicators
             ELSE EpochScan_LastEpochFallback(year, n + 1)

RECURSIVE EpochScan(_, _)
EpochScan(year, n) ==
    IF n > Len(epochTable)
    THEN FallbackSnapshot
    ELSE LET epoch == epochTable[n]
         IN  IF year >= epoch.startYear * YearUnit /\ year <= epoch.endYear * YearUnit
             THEN epoch.indicators
             ELSE EpochScan(year, n + 1)

getEpochDataForYear(year) == EpochScan(year, 1)

\* getEpochDataForYear returning the table's own entry
RECURSIVE ReturnedEntry_NoCopy(_, _)
ReturnedEntry_NoCopy(year, n) ==
    IF n > Len(epochTable)
    THEN 0
    ELSE LET epoch == epochTable[n]
         IN  IF year >= epoch.startYear * YearUnit /\ year <= epoch.endYear * YearUnit
             THEN n
             ELSE ReturnedEntry_NoCopy(year, n + 1)

\* the identity of the object getEpochDataForYear returns: n when it is the
\* object held by entry n of the table, 0 when it is a new object. Both
\* returns build a new object (the rest of a destructuring, an object literal).
ReturnedEntry(year, n) == 0

\* an object argument, or a value that is no object
Obj(m) == [obj |-> TRUE, m |-> m]
NotObj == [obj |-> FALSE, m |-> << >>]

RECURSIVE SumValues(_)
SumValues(vals) ==
    IF vals = << >> THEN Num(0) ELSE JsAdd(vals[1], SumValues(Tail(vals)))

\* [...].filter(number and not NaN), then reduce(sum) / length, 0 when empty
DimensionValue(norms) ==
    LET values == SelectSeq(norms, IsValidNumber)
    IN  IF Len(values) > 0 THEN JsDiv(SumValues(values), Num(Len(values)), 1) ELSE Num(0)

NormOf(m, name) ==
    normalizeIndicator(m[name], INDICATOR_LIMITS[name].min, INDICATOR_LIMITS[name].max)

\* calculateCTHFromIndicators guarding with totalWeight !== 0
calculateCTHFromIndicators_GuardNonZero(indicators, customWeights) ==
    LET w == IF customWeights.obj THEN customWeights.m ELSE DEFAULT_CTH_WEIGHTS
        m == indicators.m
        E_val == DimensionValue(<< NormOf(m, "gdpPerCapita"), NormOf(m, "giniIndex"),
                                   NormOf(m, "politicalEventsCount") >>)
        S_val == DimensionValue(<< NormOf(m, "averageIncome"), NormOf(m, "literacyRate") >>)
        A_val == DimensionValue(<< NormOf(m, "lifeExpectancy"), NormOf(m, "birthRate") >>)
        P_val == DimensionValue(<< NormOf(m, "populationDensity"), NormOf(m, "urbanizationRate") >>)
        weightedSum == JsAdd(JsAdd(JsAdd(JsMul(w.w_e, E_val), JsMul(w.w_s, S_val)),
                                   JsMul(w.w_a, A_val)), JsMul(w.w_p, P_val))
        totalWeight == JsAdd(JsAdd(JsAdd(w.w_e, w.w_s), w.w_a), w.w_p)
        cth == IF totalWeight # Num(0) THEN JsDiv(weightedSum, totalWeight, 1) ELSE Num(0)
    IN  IF ~indicators.obj
        THEN Num(0)
        ELSE MathMax(Num(0), MathMin(Num(ONE), cth))

calculateCTHFromIndicators(indicators, customWeights) ==
    LET w == IF customWeights.obj THEN customWeights.m ELSE DEFAULT_CTH_WEIGHTS
        m == indicators.m
        E_val == DimensionValue(<< NormOf(m, "gdpPerCapita"), NormOf(m, "giniIndex"),
                                   NormOf(m, "politicalEventsCount") >>)
        S_val == DimensionValue(<< NormOf(m, "averageIncome"), NormOf(m, "literacyRate") >>)
        A_val == DimensionValue(<< NormOf(m, "lifeExpectancy"), NormOf(m, "birthRate") >>)
        P_val == DimensionValue(<< NormOf(m, "populationDensity"), NormOf(m, "urbanizationRate") >>)
        weightedSum == JsAdd(JsAdd(JsAdd(JsMul(w.w_e, E_val), JsMul(w.w_s, S_val)),
                                   JsMul(w.w_a, A_val)), JsMul(w.w_p, P_val))
        totalWeight == JsAdd(JsAdd(JsAdd(w.w_e, w.w_s), w.w_a), w.w_p)
        cth == IF JsGt(totalWeight, Num(0)) THEN JsDiv(weightedSum, totalWeight, 1) ELSE Num(0)
    IN  IF ~indicators.obj
        THEN Num(0)
        ELSE MathMax(Num(0), MathMin(Num(ONE), cth))

estimateIndicatorValue(knownValue, deltaCTHPercentage, trendRelation, direction) ==
    IF ~IsValidNumber(knownValue) \/ JsGt(Num(0), knownValue)
    THEN Num(0)
    ELSE LET delta == IF IsValidNumber(deltaCTHPercentage) THEN deltaCTHPercentage ELSE Num(0)
             relation == IF ~IsValidNumber(trendRelation) \/ JsGt(Num(0), trendRelation)
                         THEN Num(1)
                         ELSE trendRelation
             estimatedChangeFactor == JsMul(delta, relation)
             onePlus == JsAdd(Num(ONE), estimatedChangeFactor)
         IN  IF direction = "forward"
             THEN JsDiv(JsMul(knownValue, onePlus), Num(ONE), 1)
             ELSE IF onePlus = Num(0)
                  THEN knownValue
                  ELSE JsDiv(knownValue, onePlus, ONE)

\* calculatePercentageChange without the test val1 === 0
calculatePercentageChange_NoZeroGuard(val1, val2) ==
    IF ~IsValidNumber(val1)
    THEN Num(0)
    ELSE IF ~IsValidNumber(val2)
         THEN Num(0)
         ELSE JsDiv(JsAdd(val2, JsMul(Num(-1), val1)), val1, ONE)

calculatePercentageChange(val1, val2) ==
    IF ~IsValidNumber(val1) \/ val1 = Num(0)
    THEN Num(0)
    ELSE IF ~IsValidNumber(val2)
         THEN Num(0)
         ELSE JsDiv(JsAdd(val2, JsMul(Num(-1), val1)), val1, ONE)


\* ------------------------------------------------------------------ state

VARIABLES
    pc,                     \* position in analyzeEventCTH / completeAndInferHistoricalData
    eventStartYear,         \* argument of analyzeEventCTH
    eventEndYear,           \* argument of analyzeEventCTH
    initialHistoricalData,  \* argument of analyzeEventCTH (the caller's object)
    temporalData,           \* the copy completed in place
    deltaCTHs,              \* percentage change of cth between adjacent periods
    pass,                   \* inference pass counter of Step 3
    result,                 \* value returned by analyzeEventCTH
    stageA,                 \* indicators as they stood at the end of Step 1
    stageB,                 \* cth values as they stood at the end of Step 2
    previous,               \* result of the preceding call when its output is analysed again
    reruns,                 \* number of times the output has been analysed again
    fn,                     \* name of the helper called directly
    fnArgs,                 \* its arguments
    fnResult,               \* its return value, as the caller holds it
    returnedEntry,          \* table entry that the object returned by getEpochDataForYear is (0: none)
    sharedIndicators,       \* periods whose indicators object in temporalData is the caller's own
    argAtCall               \* initialHistoricalData as it stood when analyzeEventCTH was called

vars == << pc, eventStartYear, eventEndYear, initialHistoricalData, temporalData, deltaCTHs,
           pass, result, stageA, stageB, previous, reruns, fn, fnArgs, fnResult,
           epochTable, returnedEntry, sharedIndicators, argAtCall >>

maxInferencePasses == 3

EmptyIndicators == [name \in Indicators |-> Undefined]

EmptyTemporalData == [p \in Periods |-> [indicators |-> EmptyIndicators, cth |-> Undefined]]

NoDeltas == [n \in 1..(Len(periods) - 1) |-> Undefined]

NoResult == [isNull |-> TRUE, data |-> EmptyTemporalData]

\* initialHistoricalData.<period>?.indicators ? { ...indicators } : {}
CopyIndicators(data, p) ==
    IF data.phases[p].shape = "map" THEN data.phases[p].indicators ELSE EmptyIndicators

\* the copy keeping the caller's indicators object where there is one
CopiedByReference_NoSpread(data, p) == data.phases[p].shape = "map"

\* whether the indicators object of period p in the copy is the caller's own
\* object: { ...indicators } and {} are both new objects
CopiedByReference(data, p) == FALSE

\* an assignment to an indicator of temporalData is an assignment to the
\* caller's object for the periods whose indicators object is shared
WriteThrough(data, td, shared) ==
    [data EXCEPT !.phases =
        [p \in Periods |->
            IF p \in shared THEN [shape |-> "map", indicators |-> td[p].indicators]
            ELSE data.phases[p]]]

\* periodYear with the offset of 'transition' used for 'after'
periodYear_AfterOffset(period, startYear, endYear) ==
    CASE period = "before" -> startYear - 12
      [] period = "prelude" -> startYear - 1
      [] period = "during" -> (startYear + endYear) \div 2
      [] period = "transition" -> endYear + 1
      [] period = "after" -> endYear + 1
      [] OTHER -> startYear

\* periodYear with the offset of 'before' used for 'prelude'
periodYear_PreludeOffset(period, startYear, endYear) ==
    CASE period = "before" -> startYear - 12
      [] period = "prelude" -> startYear - 12
      [] period = "during" -> (startYear + endYear) \div 2
      [] period = "transition" -> endYear + 1
      [] period = "after" -> endYear + 12
      [] OTHER -> startYear

\* representative year of a period (Step 1)
periodYear(period, startYear, endYear) ==
    CASE period = "before" -> startYear - 12
      [] period = "prelude" -> startYear - 1
      [] period = "during" -> (startYear + endYear) \div 2
      [] period = "transition" -> endYear + 1
      [] period = "after" -> endYear + 12
      [] OTHER -> startYear

\* SeedPeriod filling undefined only
SeedPeriod_OnlyUndefined(indicators, epochData) ==
    [name \in Indicators |->
        IF indicators[name] = Undefined THEN epochData[name] ELSE indicators[name]]

\* SeedPeriod filling every falsy value (!value): also 0 and NaN
SeedPeriod_FillsFalsy(indicators, epochData) ==
    [name \in Indicators |->
        IF IsMissing(indicators[name]) \/ indicators[name] \in {Num(0), NaN}
        THEN epochData[name]
        ELSE indicators[name]]

\* Step 1 filling from the default values whatever the epoch
SeedPeriod_IgnoresEpoch(indicators, epochData) ==
    [name \in Indicators |->
        IF IsMissing(indicators[name]) THEN FallbackSnapshot[name] ELSE indicators[name]]

\* Step 1 assigning the epoch value to every indicator
SeedPeriod_Overwrites(indicators, epochData) ==
    [name \in Indicators |-> epochData[name]]

\* Step 1 for one period: fill the indicators that are undefined or null
SeedPeriod(indicators, epochData) ==
    [name \in Indicators |->
        IF IsMissing(indicators[name]) THEN epochData[name] ELSE indicators[name]]

\* Step 3 for one cell without the test that the indicator is still missing
InferCell_IgnoresGuard(column, deltas, i, indicatorName) ==
    LET hasPrevData == i > 1 /\ ~IsMissing(column[i - 1])
        hasNextData == i < Len(periods) /\ ~IsMissing(column[i + 1])
        inferredValue ==
            IF hasPrevData /\ hasNextData
            THEN JsDiv(JsAdd(column[i - 1], column[i + 1]), Num(2), 1)
            ELSE IF hasPrevData
            THEN IF deltas[i - 1] # Num(0)
                 THEN estimateIndicatorValue(column[i - 1], deltas[i - 1], Num(1), "forward")
                 ELSE Null
            ELSE IF hasNextData
            THEN IF deltas[i] # Num(0)
                 THEN estimateIndicatorValue(column[i + 1], deltas[i], Num(1), "backward")
                 ELSE Null
            ELSE Null
    IN  IF inferredValue # Null
        THEN [column EXCEPT ![i] = applyLimits(indicatorName, inferredValue)]
        ELSE column

\* Step 3 for one cell interpolating also over an indicator that is present
InferCell_InterpolatesOverData(column, deltas, i, indicatorName) ==
    LET hasPrevData == i > 1 /\ ~IsMissing(column[i - 1])
        hasNextData == i < Len(periods) /\ ~IsMissing(column[i + 1])
        inferredValue ==
            IF hasPrevData /\ hasNextData
            THEN JsDiv(JsAdd(column[i - 1], column[i + 1]), Num(2), 1)
            ELSE IF hasPrevData
            THEN IF deltas[i - 1] # Num(0)
                 THEN estimateIndicatorValue(column[i - 1], deltas[i - 1], Num(1), "forward")
                 ELSE Null
            ELSE IF hasNextData
            THEN IF deltas[i] # Num(0)
                 THEN estimateIndicatorValue(column[i + 1], deltas[i], Num(1), "backward")
                 ELSE Null
            ELSE Null
    IN  IF (IsMissing(column[i]) \/ (hasPrevData /\ hasNextData)) /\ inferredValue # Null
        THEN [column EXCEPT ![i] = applyLimits(indicatorName, inferredValue)]
        ELSE column

\* Step 3 for period i and one indicator; column is that indicator's values in
\* the five periods as updated so far (a cell reads no other indicator)
InferCell(column, deltas, i, indicatorName) ==
    LET hasPrevData == i > 1 /\ ~IsMissing(column[i - 1])
        hasNextData == i < Len(periods) /\ ~IsMissing(column[i + 1])
        inferredValue ==
            IF hasPrevData /\ hasNextData
            THEN JsDiv(JsAdd(column[i - 1], column[i + 1]), Num(2), 1)
            ELSE IF hasPrevData
            THEN IF deltas[i - 1] # Num(0)
                 THEN estimateIndicatorValue(column[i - 1], deltas[i - 1], Num(1), "forward")
                 ELSE Null
            ELSE IF hasNextData
            THEN IF deltas[i] # Num(0)
                 THEN estimateIndicatorValue(column[i + 1], deltas[i], Num(1), "backward")
                 ELSE Null
            ELSE Null
    IN  IF IsMissing(column[i]) /\ inferredValue # Null
        THEN [column EXCEPT ![i] = applyLimits(indicatorName, inferredValue)]
        ELSE column

\* the periods in order, each on the values already updated in this pass
RECURSIVE InferColumn(_, _, _, _)
InferColumn(column, deltas, i, indicatorName) ==
    IF i > Len(periods)
    THEN column
    ELSE InferColumn(InferCell(column, deltas, i, indicatorName), deltas, i + 1, indicatorName)

PeriodIndex(p) == CHOOSE n \in 1..Len(periods) : periods[n] = p

\* one pass of Step 3
InferPass(td, deltas) ==
    LET columns == [name \in Indicators |->
                       InferColumn([n \in 1..Len(periods) |-> td[periods[n]].indicators[name]],
                                   deltas, 1, name)]
    IN  [p \in Periods |->
            [td[p] EXCEPT !.indicators = [name \in Indicators |-> columns[name][PeriodIndex(p)]]]]

\* Step 4 replacing a value that is no number by the minimum
LimitCell_ClampsInvalid(indicatorName, value) ==
    IF IsMissing(value)
    THEN value
    ELSE IF IsValidNumber(value)
         THEN applyLimits(indicatorName, value)
         ELSE Num(INDICATOR_LIMITS[indicatorName].min)

\* Step 4 for one indicator value
LimitCell(indicatorName, value) ==
    IF ~IsMissing(value) THEN applyLimits(indicatorName, value) ELSE value


\* ----------------------------------------------------------------- inputs

\* distance of the out-of-domain input values from the domain limits
OutOfDomainBy == 10

\* number of times a result is fed back as initial data
MaxReruns == 1

Below(name) == Num(INDICATOR_LIMITS[name].min - OutOfDomainBy)
Above(name) == Num(INDICATOR_LIMITS[name].max + OutOfDomainBy)
Lo(name) == Num(INDICATOR_LIMITS[name].min
                + ((INDICATOR_LIMITS[name].max - INDICATOR_LIMITS[name].min) \div 4))
Hi(name) == Num(INDICATOR_LIMITS[name].max
                - ((INDICATOR_LIMITS[name].max - INDICATOR_LIMITS[name].min) \div 4))

CellValues(name) == {Undefined, Null, NaN, Str, Below(name), Lo(name), Hi(name), Above(name)}
SideValues(name) == {Undefined, Lo(name), Hi(name), Above(name)}
GapValues == {Undefined, Null}

\* a period entry of the caller's object; shape is one of
\*   "absent" (no entry), "null", "noIndicators", "nullIndicators", "map"
Phase(shape, indicators) == [shape |-> shape, indicators |-> indicators]
AbsentPhase == Phase("absent", EmptyIndicators)
FullRow == [name \in Indicators |-> Lo(name)]

Record(phases) == [k |-> "obj", phases |-> phases]
NonRecord(kind) == [k |-> kind, phases |-> [p \in Periods |-> AbsentPhase]]

BaseEmpty == [p \in Periods |-> AbsentPhase]
BaseDuring == [BaseEmpty EXCEPT !["during"] = Phase("map", FullRow)]
BaseShapes ==
    [before |-> Phase("null", EmptyIndicators),
     prelude |-> Phase("noIndicators", EmptyIndicators),
     during |-> Phase("nullIndicators", EmptyIndicators),
     transition |-> Phase("map", EmptyIndicators),
     after |-> AbsentPhase]
Bases == {BaseEmpty, BaseDuring, BaseShapes}

\* the base with indicator name of period p set to value
SetCell(phases, p, name, value) ==
    [phases EXCEPT ![p] = Phase("map", [CopyIndicators([phases |-> phases], p)
                                            EXCEPT ![name] = value])]

\* one indicator given (or not) on both sides of a gap: periods i-1, i, i+1
GapInputs ==
    UNION { { Record(SetCell(SetCell(SetCell(base, periods[i - 1], name, a),
                                     periods[i], name, g),
                             periods[i + 1], name, b)) :
                base \in Bases, i \in 2..(Len(periods) - 1),
                a \in SideValues(name), g \in GapValues, b \in SideValues(name) } :
            name \in Indicators }

\* one indicator of one period given as any kind of value
CellInputs ==
    UNION { { Record(SetCell(base, p, name, v)) :
                base \in Bases, p \in Periods, v \in CellValues(name) } :
            name \in Indicators }

\* every indicator of one period given below its domain (a score of 0)
FloorRow == [name \in Indicators |-> Below(name)]
FloorInputs ==
    { Record([BaseEmpty EXCEPT ![p] = Phase("map", FloorRow)]) : p \in {"prelude", "during"} }

DataInputs ==
    GapInputs \cup CellInputs \cup FloorInputs
        \cup { NonRecord(kind) : kind \in {"undef", "null", "num", "str"} }

\* a sample of the initial data: nothing given, one period given, every shape
\* of period entry, a gap between two given values, a score of 0, no object
SampleInputs ==
    { Record(base) : base \in Bases }
        \cup { Record(SetCell(SetCell(BaseEmpty, "prelude", "giniIndex", Lo("giniIndex")),
                              "transition", "giniIndex", Hi("giniIndex"))) }
        \cup FloorInputs
        \cup { NonRecord("undef") }

\* arguments of calculatePercentageChange when it is called directly
PercentageValues ==
    {Undefined, Null, NaN, Str, PosInf,
     Num(0), Num(1), Num(ONE \div 4), Num(ONE \div 2), Num(ONE), Num(0 - (ONE \div 4))}

\* arguments of the helpers when they are called directly
NormalizeValues ==
    {Undefined, Null, NaN, Str, PosInf, NegInf} \cup { Num(n) : n \in -50..150 }
NormalizeDomains == { << 0, 100 >>, << 20, 70 >>, << 0, 15 >>, << 5, 5 >> }

WeightValues == {Num(0), Num(15), Num(40), Num(-30), Undefined, NaN, PosInf}
WeightInputs ==
    {NotObj} \cup { Obj([w_e |-> e, w_s |-> s, w_a |-> a, w_p |-> p]) :
                        e \in WeightValues, s \in WeightValues,
                        a \in WeightValues, p \in WeightValues }
MixedRow ==
    [FullRow EXCEPT !["gdpPerCapita"] = NaN, !["literacyRate"] = Str,
                    !["birthRate"] = Above("birthRate"), !["populationDensity"] = Null,
                    !["giniIndex"] = Below("giniIndex")]
\* no indicator of the Age Range dimension
NoAgeRow ==
    [FullRow EXCEPT !["lifeExpectancy"] = Undefined, !["birthRate"] = Undefined]
IndicatorInputs ==
    {NotObj, Obj(EmptyIndicators), Obj(FullRow), Obj([name \in Indicators |-> Hi(name)]),
     Obj(MixedRow), Obj(NoAgeRow)}

\* years given to getEpochDataForYear: around every bound of every epoch
YearMargin == 2
LookupYears ==
    { b * YearUnit + d :
        b \in UNION { {EPOCH_DATA_REFERENCE[n].startYear, EPOCH_DATA_REFERENCE[n].endYear} :
                         n \in 1..Len(EPOCH_DATA_REFERENCE) },
        d \in (0 - YearMargin)..YearMargin }

\* what a caller assigns to an indicator of a map it was given
ModifiedIndicators == {"gdpPerCapita", "urbanizationRate"}
ModifiedPeriods == {"during"}
ModifiedValues == {Num(0), Undefined}

YearPairs ==
    { << Num(1789), Num(1799) >>, << Num(2015), Num(2015) >>, << Num(-2990), Num(513) >>,
      << Num(1799), Num(1789) >>, << NaN, Num(1799) >>, << Num(1789), Str >>,
      << Undefined, Undefined >> }


\* ---------------------------------------------------------------- actions

Init ==
    /\ pc = "idle"
    /\ eventStartYear = Undefined
    /\ eventEndYear = Undefined
    /\ initialHistoricalData = NonRecord("undef")
    /\ temporalData = EmptyTemporalData
    /\ deltaCTHs = NoDeltas
    /\ pass = 0
    /\ result = NoResult
    /\ stageA = EmptyTemporalData
    /\ stageB = EmptyTemporalData
    /\ previous = NoResult
    /\ reruns = 0
    /\ fn = "none"
    /\ fnArgs = << >>
    /\ fnResult = Undefined
    /\ epochTable = EPOCH_DATA_REFERENCE
    /\ returnedEntry = 0
    /\ sharedIndicators = {}
    /\ argAtCall = NonRecord("undef")

\* InvalidInput with >= in the comparison of the years
InvalidInput_RejectsEqualYears(startYear, endYear, data) ==
    \/ ~IsValidNumber(startYear) \/ ~IsValidNumber(endYear)
    \/ JsGt(startYear, endYear) \/ startYear = endYear
    \/ data.k # "obj"

\* InvalidInput that also rejects a record with a period that is absent or null
InvalidInput_RejectsMissingPeriod(startYear, endYear, data) ==
    \/ ~IsValidNumber(startYear) \/ ~IsValidNumber(endYear)
    \/ JsGt(startYear, endYear)
    \/ data.k # "obj"
    \/ \E p \in Periods : data.phases[p].shape \in {"absent", "null"}

\* the input validation of analyzeEventCTH: the conditions that return null
InvalidInput(startYear, endYear, data) ==
    \/ ~IsValidNumber(startYear) \/ ~IsValidNumber(endYear)
    \/ JsGt(startYear, endYear)
    \/ data.k # "obj"

\* analyzeEventCTH up to the call of completeAndInferHistoricalData, whose
\* first loop (period and indicators objects exist) changes nothing on the copy
Enter(startYear, endYear, data) ==
    /\ eventStartYear' = startYear
    /\ eventEndYear' = endYear
    /\ initialHistoricalData' = data
    /\ deltaCTHs' = NoDeltas
    /\ pass' = 0
    /\ stageA' = EmptyTemporalData
    /\ stageB' = EmptyTemporalData
    /\ argAtCall' = data
    /\ UNCHANGED << fn, fnArgs, fnResult, epochTable, returnedEntry >>
    /\ IF InvalidInput(startYear, endYear, data)
       THEN /\ pc' = "failed"
            /\ result' = NoResult
            /\ temporalData' = EmptyTemporalData
            /\ sharedIndicators' = {}
       ELSE /\ pc' = "step1"
            /\ result' = NoResult
            /\ sharedIndicators' = { p \in Periods : CopiedByReference(data, p) }
            /\ temporalData' =
                   [p \in Periods |-> [indicators |-> CopyIndicators(data, p), cth |-> Undefined]]

analyzeEventCTH ==
    /\ pc = "idle"
    /\ fn = "none"
    /\ \E years \in YearPairs, data \in DataInputs : Enter(years[1], years[2], data)
    /\ previous' = NoResult
    /\ reruns' = 0

\* the caller passes the returned structure back as initial data, same years
AnalyzeAgain ==
    /\ pc = "done"
    /\ reruns < MaxReruns
    /\ Enter(eventStartYear, eventEndYear,
             Record([p \in Periods |-> Phase("map", result.data[p].indicators)]))
    /\ previous' = result
    /\ reruns' = reruns + 1

Step1 ==
    /\ pc = "step1"
    /\ temporalData' =
           [p \in Periods |->
               [temporalData[p] EXCEPT !.indicators =
                   SeedPeriod(temporalData[p].indicators,
                              getEpochDataForYear(periodYear(p, eventStartYear.v, eventEndYear.v) * YearUnit))]]
    /\ stageA' = temporalData'
    /\ pc' = "step2"
    /\ initialHistoricalData' = WriteThrough(initialHistoricalData, temporalData', sharedIndicators)
    /\ UNCHANGED << eventStartYear, eventEndYear, deltaCTHs, pass, result,
                    stageB, previous, reruns, fn, fnArgs, fnResult,
                    epochTable, returnedEntry, sharedIndicators, argAtCall >>

Step2 ==
    /\ pc = "step2"
    /\ temporalData' =
           [p \in Periods |->
               [temporalData[p] EXCEPT !.cth =
                   calculateCTHFromIndicators(Obj(temporalData[p].indicators), NotObj)]]
    /\ deltaCTHs' =
           [n \in 1..(Len(periods) - 1) |->
               IF temporalData'[periods[n]].cth # Undefined /\ temporalData'[periods[n + 1]].cth # Undefined
               THEN calculatePercentageChange(temporalData'[periods[n]].cth,
                                              temporalData'[periods[n + 1]].cth)
               ELSE Num(0)]
    /\ stageB' = temporalData'
    /\ pass' = 0
    /\ pc' = "step3"
    /\ UNCHANGED << eventStartYear, eventEndYear, initialHistoricalData, result, stageA,
                    previous, reruns, fn, fnArgs, fnResult,
                    epochTable, returnedEntry, sharedIndicators, argAtCall >>

\* Step 3 with a pass that does not advance the pass counter
Step3_NoPassCount ==
    /\ pc = "step3"
    /\ pass < maxInferencePasses
    /\ temporalData' = InferPass(temporalData, deltaCTHs)
    /\ pass' = pass
    /\ initialHistoricalData' = WriteThrough(initialHistoricalData, temporalData', sharedIndicators)
    /\ UNCHANGED << pc, eventStartYear, eventEndYear, deltaCTHs, result,
                    stageA, stageB, previous, reruns, fn, fnArgs, fnResult,
                    epochTable, returnedEntry, sharedIndicators, argAtCall >>

Step3 ==
    /\ pc = "step3"
    /\ pass < maxInferencePasses
    /\ temporalData' = InferPass(temporalData, deltaCTHs)
    /\ pass' = pass + 1
    /\ initialHistoricalData' = WriteThrough(initialHistoricalData, temporalData', sharedIndicators)
    /\ UNCHANGED << pc, eventStartYear, eventEndYear, deltaCTHs, result,
                    stageA, stageB, previous, reruns, fn, fnArgs, fnResult,
                    epochTable, returnedEntry, sharedIndicators, argAtCall >>

Step4 ==
    /\ pc = "step3"
    /\ ~(pass < maxInferencePasses)
    /\ temporalData' =
           [p \in Periods |->
               [temporalData[p] EXCEPT !.indicators =
                   [name \in Indicators |-> LimitCell(name, temporalData[p].indicators[name])]]]
    /\ pc' = "step5"
    /\ initialHistoricalData' = WriteThrough(initialHistoricalData, temporalData', sharedIndicators)
    /\ UNCHANGED << eventStartYear, eventEndYear, deltaCTHs, pass, result,
                    stageA, stageB, previous, reruns, fn, fnArgs, fnResult,
                    epochTable, returnedEntry, sharedIndicators, argAtCall >>

\* Step 5 and the return of analyzeEventCTH
Step5 ==
    /\ pc = "step5"
    /\ temporalData' =
           [p \in Periods |->
               [temporalData[p] EXCEPT !.cth =
                   calculateCTHFromIndicators(Obj(temporalData[p].indicators), NotObj)]]
    /\ result' = [isNull |-> FALSE, data |-> temporalData']
    /\ pc' = "done"
    /\ UNCHANGED << eventStartYear, eventEndYear, initialHistoricalData, deltaCTHs, pass,
                    stageA, stageB, previous, reruns, fn, fnArgs, fnResult,
                    epochTable, returnedEntry, sharedIndicators, argAtCall >>

\* the caller drops the returned value; nothing is kept between invocations
Release ==
    /\ pc \in {"done", "failed", "called", "modified"}
    /\ pc' = "idle"
    /\ eventStartYear' = Undefined
    /\ eventEndYear' = Undefined
    /\ initialHistoricalData' = NonRecord("undef")
    /\ temporalData' = EmptyTemporalData
    /\ deltaCTHs' = NoDeltas
    /\ pass' = 0
    /\ result' = NoResult
    /\ stageA' = EmptyTemporalData
    /\ stageB' = EmptyTemporalData
    /\ previous' = NoResult
    /\ reruns' = 0
    /\ fn' = "none"
    /\ fnArgs' = << >>
    /\ fnResult' = Undefined
    /\ returnedEntry' = 0
    /\ sharedIndicators' = {}
    /\ argAtCall' = NonRecord("undef")
    /\ UNCHANGED epochTable

\* a direct call of normalizeIndicator
CallNormalizeIndicator ==
    /\ pc = "idle"
    /\ fn = "none"
    /\ \E value \in NormalizeValues, d \in NormalizeDomains :
          /\ fnArgs' = [value |-> value, min |-> d[1], max |-> d[2]]
          /\ fnResult' = normalizeIndicator(value, d[1], d[2])
    /\ fn' = "normalizeIndicator"
    /\ pc' = "called"
    /\ UNCHANGED << eventStartYear, eventEndYear, initialHistoricalData, temporalData, deltaCTHs,
                    pass, result, stageA, stageB, previous, reruns,
                    epochTable, returnedEntry, sharedIndicators, argAtCall >>

\* a direct call of the exported calculateCTHFromIndicators
CallCalculateCTHFromIndicators ==
    /\ pc = "idle"
    /\ fn = "none"
    /\ \E indicators \in IndicatorInputs, customWeights \in WeightInputs :
          /\ fnArgs' = [indicators |-> indicators, customWeights |-> customWeights]
          /\ fnResult' = calculateCTHFromIndicators(indicators, customWeights)
    /\ fn' = "calculateCTHFromIndicators"
    /\ pc' = "called"
    /\ UNCHANGED << eventStartYear, eventEndYear, initialHistoricalData, temporalData, deltaCTHs,
                    pass, result, stageA, stageB, previous, reruns,
                    epochTable, returnedEntry, sharedIndicators, argAtCall >>

\* a direct call of calculatePercentageChange
CallCalculatePercentageChange ==
    /\ pc = "idle"
    /\ fn = "none"
    /\ \E val1 \in PercentageValues, val2 \in PercentageValues :
          /\ fnArgs' = [val1 |-> val1, val2 |-> val2]
          /\ fnResult' = calculatePercentageChange(val1, val2)
    /\ fn' = "calculatePercentageChange"
    /\ pc' = "called"
    /\ UNCHANGED << eventStartYear, eventEndYear, initialHistoricalData, temporalData, deltaCTHs,
                    pass, result, stageA, stageB, previous, reruns,
                    epochTable, returnedEntry, sharedIndicators, argAtCall >>

\* a direct call of getEpochDataForYear
CallGetEpochDataForYear ==
    /\ pc = "idle"
    /\ fn = "none"
    /\ \E year \in LookupYears :
          /\ fnArgs' = [year |-> year]
          /\ fnResult' = getEpochDataForYear(year)
          /\ returnedEntry' = ReturnedEntry(year, 1)
    /\ fn' = "getEpochDataForYear"
    /\ pc' = "called"
    /\ UNCHANGED << eventStartYear, eventEndYear, initialHistoricalData, temporalData, deltaCTHs,
                    pass, result, stageA, stageB, previous, reruns,
                    epochTable, sharedIndicators, argAtCall >>

\* the caller assigns to an indicator of the map getEpochDataForYear returned
CallerModifiesReturnedMap ==
    /\ pc = "called"
    /\ fn = "getEpochDataForYear"
    /\ \E name \in ModifiedIndicators, value \in ModifiedValues :
          /\ fnResult' = [fnResult EXCEPT ![name] = value]
          /\ epochTable' =
                 IF returnedEntry = 0
                 THEN epochTable
                 ELSE [epochTable EXCEPT ![returnedEntry].indicators[name] = value]
    /\ pc' = "modified"
    /\ UNCHANGED << eventStartYear, eventEndYear, initialHistoricalData, temporalData, deltaCTHs,
                    pass, result, stageA, stageB, previous, reruns, fn, fnArgs,
                    returnedEntry, sharedIndicators, argAtCall >>

\* the caller assigns to an indicator of a map of the structure analyzeEventCTH
\* returned; the maps hold numbers copied one by one from the epoch snapshot
CallerModifiesResult ==
    /\ pc = "done"
    /\ \E p \in ModifiedPeriods, name \in ModifiedIndicators, value \in ModifiedValues :
          /\ temporalData' = [temporalData EXCEPT ![p].indicators[name] = value]
          /\ result' = [result EXCEPT !.data = temporalData']
    /\ initialHistoricalData' = WriteThrough(initialHistoricalData, temporalData', sharedIndicators)
    /\ pc' = "modified"
    /\ UNCHANGED << eventStartYear, eventEndYear, deltaCTHs, pass, stageA, stageB, previous,
                    reruns, fn, fnArgs, fnResult,
                    epochTable, returnedEntry, sharedIndicators, argAtCall >>

Next ==
    \/ analyzeEventCTH
    \/ Release
    \/ CallNormalizeIndicator
    \/ CallCalculateCTHFromIndicators
    \/ CallCalculatePercentageChange
    \/ CallGetEpochDataForYear
    \/ CallerModifiesReturnedMap
    \/ CallerModifiesResult
    \/ AnalyzeAgain
    \/ Step1
    \/ Step2
    \/ Step3
    \/ Step4
    \/ Step5

Spec == Init /\ [][Next]_vars

\* -------------------------------------------------------------- properties

\* analyzeEventCTH has returned a result
Returned == pc = "done"

\* the value the caller supplied for an indicator of a period (Undefined when
\* the period has no indicator map)
Supplied(p, name) ==
    IF initialHistoricalData.phases[p].shape = "map"
    THEN initialHistoricalData.phases[p].indicators[name]
    ELSE Undefined

InUnit(x) == x.k = "num" /\ x.v >= 0 /\ x.v <= ONE

InDomain(name, x) ==
    x.k = "num" /\ x.v >= INDICATOR_LIMITS[name].min /\ x.v <= INDICATOR_LIMITS[name].max

StructurallyInvalid ==
    \/ eventStartYear.k \notin {"num", "inf", "ninf"}
    \/ eventEndYear.k \notin {"num", "inf", "ninf"}
    \/ (eventStartYear.k = "num" /\ eventEndYear.k = "num" /\ eventStartYear.v > eventEndYear.v)
    \/ initialHistoricalData.k # "obj"

CompleteResult ==
    /\ ~result.isNull
    /\ \A p \in Periods :
          /\ \A name \in Indicators : ~IsMissing(result.data[p].indicators[name])
          /\ IsValidNumber(result.data[p].cth)

FullySupplied(p) == \A name \in Indicators : IsValidNumber(Supplied(p, name))

NothingSupplied(p) == \A name \in Indicators : IsMissing(Supplied(p, name))

\* C1: every score returned by analyzeEventCTH lies in [0,1], and so does the
\* value of calculateCTHFromIndicators for any custom weights.
C1_ScoresInUnitInterval ==
    /\ Returned => \A p \in Periods : InUnit(result.data[p].cth)
    /\ fn = "calculateCTHFromIndicators" => InUnit(fnResult)

\* C2: every indicator value of every period of a returned result lies within
\* the indicator's [min,max] domain, whatever the caller supplied.
C2_IndicatorsInDomain ==
    Returned => \A p \in Periods : \A name \in Indicators :
                    InDomain(name, result.data[p].indicators[name])

\* C3: after Step 1 and in the returned result every period holds a value for
\* all 9 indicators, together with a score.
C3_AllIndicatorsPresent ==
    /\ pc \in {"step2", "step3", "step5", "done"} =>
          \A p \in Periods : \A name \in Indicators : ~IsMissing(temporalData[p].indicators[name])
    /\ Returned => CompleteResult

C3_Witness ==
    /\ Returned
    /\ \E p \in Periods : initialHistoricalData.phases[p].shape = "null"
    /\ \E p \in Periods : \E name \in Indicators : Supplied(p, name) = Null
    /\ CompleteResult

\* C4: analyzeEventCTH returns null, with no period data, exactly when a year is
\* not a valid number, the start year is greater than the end year or the
\* initial data is not a record; equal years and a record give a result.
C4_NullExactlyOnInvalidInput ==
    /\ pc = "failed" => StructurallyInvalid /\ result = NoResult
    /\ pc \in {"step1", "step2", "step3", "step5", "done"} => ~StructurallyInvalid
    /\ Returned => ~result.isNull

C4_Witness ==
    /\ Returned
    /\ eventStartYear = eventEndYear
    /\ ~result.isNull

C6_InterpolationExact ==
    Returned =>
        \A i \in 2..(Len(periods) - 1) : \A name \in Indicators :
            ( /\ Supplied(periods[i - 1], name).k = "num"
              /\ Supplied(periods[i + 1], name).k = "num"
              /\ IsMissing(Supplied(periods[i], name)) ) =>
                result.data[periods[i]].indicators[name] =
                    applyLimits(name, Num((Supplied(periods[i - 1], name).v
                                           + Supplied(periods[i + 1], name).v) \div 2))

\* C7: a period for which the caller supplies no indicator and whose
\* representative year lies in an epoch interval holds that epoch's snapshot;
\* for 1789-1799 'before' is the snapshot of 1777 and 'after' that of 1811.
C7_EpochFallback ==
    Returned =>
        /\ \A p \in Periods : \A n \in 1..Len(EPOCH_DATA_REFERENCE) :
              ( /\ NothingSupplied(p)
                /\ periodYear(p, eventStartYear.v, eventEndYear.v) >= EPOCH_DATA_REFERENCE[n].startYear
                /\ periodYear(p, eventStartYear.v, eventEndYear.v) <= EPOCH_DATA_REFERENCE[n].endYear ) =>
                    result.data[p].indicators = EPOCH_DATA_REFERENCE[n].indicators
        /\ ( /\ eventStartYear = Num(1789)
             /\ eventEndYear = Num(1799)
             /\ NothingSupplied("before")
             /\ NothingSupplied("after") ) =>
                /\ result.data["before"].indicators = Snapshot(15, 50, 8, 3, 25, 40, 30, 20, 25)
                /\ result.data["after"].indicators = Snapshot(30, 48, 10, 6, 40, 45, 25, 50, 40)

C7_Witness ==
    /\ Returned
    /\ eventStartYear = Num(1789)
    /\ eventEndYear = Num(1799)
    /\ FullySupplied("during")
    /\ NothingSupplied("before")
    /\ NothingSupplied("after")
    /\ result.data["after"].indicators = Snapshot(30, 48, 10, 6, 40, 45, 25, 50, 40)

\* C8: the score of a period whose 9 indicators the caller supplied as valid
\* numbers is the default-weight score of exactly those supplied values.
C8_ScoreFromSuppliedOnly ==
    Returned =>
        \A p \in Periods :
            FullySupplied(p) =>
                result.data[p].cth =
                    calculateCTHFromIndicators(Obj(initialHistoricalData.phases[p].indicators), NotObj)

C8_Witness ==
    /\ Returned
    /\ reruns = 0
    /\ FullySupplied("during")
    /\ \E name \in Indicators : Supplied("during", name) = Above(name)
    /\ \E p \in Periods : ~FullySupplied(p)

\* C9: analysing the returned result again with the same years changes no
\* indicator and no score.
C9_Idempotent ==
    (Returned /\ reruns > 0) => result = previous

C9_Witness ==
    /\ Returned
    /\ reruns > 0
    /\ ~previous.isNull
    /\ \E p \in Periods : \E name \in Indicators :
          InDomain(name, previous.data[p].indicators[name])

\* C10: normalizeIndicator returns a value in [0,1] for every input, and 0 when
\* the raw value is undefined, null, NaN or not a number.
C10_NormalizeInUnitInterval ==
    fn = "normalizeIndicator" =>
        /\ InUnit(fnResult)
        /\ fnArgs.value.k \in {"undef", "null", "nan", "str"} => fnResult = Num(0)

C10_Witness ==
    /\ fn = "normalizeIndicator"
    /\ fnArgs.value = NaN
    /\ fnArgs.min < fnArgs.max
    /\ fnResult = Num(0)

\* C11: for min < max normalizeIndicator is 0 at and below min, 1 at and above
\* max, linear in between and non-decreasing in the raw value.
C11_NormalizeClampsAndRescales ==
    (fn = "normalizeIndicator" /\ fnArgs.min < fnArgs.max /\ IsValidNumber(fnArgs.value)) =>
        /\ (fnArgs.value.k = "ninf" \/ (fnArgs.value.k = "num" /\ fnArgs.value.v <= fnArgs.min))
              => fnResult = Num(0)
        /\ (fnArgs.value.k = "inf" \/ (fnArgs.value.k = "num" /\ fnArgs.value.v >= fnArgs.max))
              => fnResult = Num(ONE)
        /\ (fnArgs.value.k = "num" /\ fnArgs.value.v >= fnArgs.min /\ fnArgs.value.v <= fnArgs.max)
              => /\ fnResult.v * (fnArgs.max - fnArgs.min) <= (fnArgs.value.v - fnArgs.min) * ONE
                 /\ (fnResult.v + 1) * (fnArgs.max - fnArgs.min) > (fnArgs.value.v - fnArgs.min) * ONE
        /\ \A u \in NormalizeValues :
              (u.k = "num" /\ fnArgs.value.k = "num" /\ u.v <= fnArgs.value.v) =>
                  normalizeIndicator(u, fnArgs.min, fnArgs.max).v <= fnResult.v

C11_Witness ==
    /\ fn = "normalizeIndicator"
    /\ fnArgs.min = 0
    /\ fnArgs.max = 100
    /\ fnArgs.value = Num(150)
    /\ fnResult = Num(ONE)

\* C12 as stated: when min = max normalizeIndicator returns 0.5 for every valid
\* numeric raw value.
C12_DegenerateDomainHalf ==
    (fn = "normalizeIndicator" /\ fnArgs.min = fnArgs.max /\ IsValidNumber(fnArgs.value)) =>
        fnResult = Num(ONE \div 2)

\* C12 as amended: when min = max normalizeIndicator returns 0 for every valid
\* numeric raw value.
C12_DegenerateDomainZero ==
    (fn = "normalizeIndicator" /\ fnArgs.min = fnArgs.max /\ IsValidNumber(fnArgs.value)) =>
        fnResult = Num(0)

C12_Witness ==
    /\ fn = "normalizeIndicator"
    /\ fnArgs.min = fnArgs.max
    /\ fnArgs.value = Num(5)
    /\ fnResult = Num(0)

\* the indicators of each dimension and the weight of each dimension
DimensionIndicators ==
    [E |-> << "gdpPerCapita", "giniIndex", "politicalEventsCount" >>,
     S |-> << "averageIncome", "literacyRate" >>,
     A |-> << "lifeExpectancy", "birthRate" >>,
     P |-> << "populationDensity", "urbanizationRate" >>]
Dimensions == DOMAIN DimensionIndicators
WeightOf(w, d) ==
    CASE d = "E" -> w.w_e
      [] d = "S" -> w.w_s
      [] d = "A" -> w.w_a
      [] d = "P" -> w.w_p

ScoreCalled == fn = "calculateCTHFromIndicators" /\ fnArgs.indicators.obj
WeightsUsed ==
    IF fnArgs.customWeights.obj THEN fnArgs.customWeights.m ELSE DEFAULT_CTH_WEIGHTS
WeightSum(w) == JsAdd(JsAdd(JsAdd(w.w_e, w.w_s), w.w_a), w.w_p)
FiniteWeights(w) == \A d \in Dimensions : WeightOf(w, d).k = "num"
NonNegativeWeights(w) == FiniteWeights(w) /\ \A d \in Dimensions : WeightOf(w, d).v >= 0

\* the dimension values as calculateCTHFromIndicators computes them
DimensionValues(m) ==
    [d \in Dimensions |->
        DimensionValue([i \in 1..Len(DimensionIndicators[d]) |->
                            NormOf(m, DimensionIndicators[d][i])])]

\* the mean of the normalized values of the indicators whose raw value is a valid number
ValidMean(m, names) ==
    LET valid == SelectSeq(names, LAMBDA n : IsValidNumber(m[n]))
    IN  IF Len(valid) = 0
        THEN Num(0)
        ELSE JsDiv(SumValues([i \in 1..Len(valid) |-> NormOf(m, valid[i])]),
                   Num(Len(valid)), 1)

\* sum over the dimensions of ds of weight * value, and of weight
RECURSIVE WeightedSumOver(_, _, _)
WeightedSumOver(w, dims, ds) ==
    IF ds = {}
    THEN Num(0)
    ELSE LET d == CHOOSE x \in ds : TRUE
         IN  JsAdd(JsMul(WeightOf(w, d), dims[d]), WeightedSumOver(w, dims, ds \ {d}))
RECURSIVE WeightSumOver(_, _)
WeightSumOver(w, ds) ==
    IF ds = {}
    THEN Num(0)
    ELSE LET d == CHOOSE x \in ds : TRUE
         IN  JsAdd(WeightOf(w, d), WeightSumOver(w, ds \ {d}))
Clamp01(x) == MathMax(Num(0), MathMin(Num(ONE), x))

\* C13: each dimension enters the score as the mean of the normalized values
\* of only its valid indicators (invalid ones left out of sum and count),
\* and as 0 when it has no valid indicator.
C13_MeanOfValidOnly ==
    (ScoreCalled /\ NonNegativeWeights(WeightsUsed) /\ JsGt(WeightSum(WeightsUsed), Num(0))) =>
        LET m == fnArgs.indicators.m
            dims == [d \in Dimensions |-> ValidMean(m, DimensionIndicators[d])]
        IN  fnResult = JsDiv(WeightedSumOver(WeightsUsed, dims, Dimensions),
                             WeightSum(WeightsUsed), 1)

\* C14 as stated: the score is the weighted sum of the dimension values divided
\* by the sum of the weights, and 0 when the sum of the weights is 0.
C14_WeightedSumOverWeightSum ==
    (ScoreCalled /\ FiniteWeights(WeightsUsed)) =>
        LET dims == DimensionValues(fnArgs.indicators.m)
            total == WeightSum(WeightsUsed)
        IN  fnResult = IF total = Num(0)
                       THEN Num(0)
                       ELSE JsDiv(WeightedSumOver(WeightsUsed, dims, Dimensions), total, 1)

\* C14 as amended: the score is 0 whenever the sum of the weights is not
\* greater than 0, and the weighted sum divided by the sum of the weights,
\* clamped to [0,1], when that sum is a finite number greater than 0.
C14_GuardedClampedWeightedMean ==
    ScoreCalled =>
        LET dims == DimensionValues(fnArgs.indicators.m)
            total == WeightSum(WeightsUsed)
        IN  /\ ~JsGt(total, Num(0)) => fnResult = Num(0)
            /\ (JsGt(total, Num(0)) /\ total.k = "num") =>
                  fnResult = Clamp01(JsDiv(WeightedSumOver(WeightsUsed, dims, Dimensions),
                                           total, 1))

C14_Witness ==
    /\ ScoreCalled
    /\ fnArgs.indicators.m = FullRow
    /\ fnArgs.customWeights.obj
    /\ \A d \in Dimensions : WeightOf(WeightsUsed, d) = Num(0)
    /\ fnResult = Num(0)

\* C15: when no indicator of a dimension is given, the score is the weighted
\* mean of the remaining dimensions over the sum of the remaining weights.
C15_WeightRedistributed ==
    LET m == fnArgs.indicators.m
        present == { d \in Dimensions :
                        \E i \in 1..Len(DimensionIndicators[d]) :
                            ~IsMissing(m[DimensionIndicators[d][i]]) }
    IN  (/\ ScoreCalled
         /\ NonNegativeWeights(WeightsUsed)
         /\ present # Dimensions
         /\ JsGt(WeightSumOver(WeightsUsed, present), Num(0))) =>
            fnResult = JsDiv(WeightedSumOver(WeightsUsed, DimensionValues(m), present),
                             WeightSumOver(WeightsUsed, present), 1)

LookedUp == fn = "getEpochDataForYear" /\ pc = "called"

\* whether a year (in units of 1 / YearUnit) lies in the inclusive interval of
\* entry n of the table as written in the source
InEpoch(year, n) ==
    /\ year >= EPOCH_DATA_REFERENCE[n].startYear * YearUnit
    /\ year <= EPOCH_DATA_REFERENCE[n].endYear * YearUnit
InNoEpoch(year) == \A n \in 1..Len(EPOCH_DATA_REFERENCE) : ~InEpoch(year, n)

\* C16: getEpochDataForYear returns the 9 indicators, and nothing else, of the
\* first epoch whose inclusive interval contains the year; 1800 is earlyModern
\* and 1801 is industrialRevolution.
C16_FirstContainingEpoch ==
    LookedUp =>
        /\ \A n \in 1..Len(EPOCH_DATA_REFERENCE) :
              (InEpoch(fnArgs.year, n) /\ \A k \in 1..(n - 1) : ~InEpoch(fnArgs.year, k)) =>
                  /\ fnResult = EPOCH_DATA_REFERENCE[n].indicators
                  /\ DOMAIN fnResult = Indicators
        /\ fnArgs.year = 1800 * YearUnit => fnResult = Snapshot(15, 50, 8, 3, 25, 40, 30, 20, 25)
        /\ fnArgs.year = 1801 * YearUnit => fnResult = Snapshot(30, 48, 10, 6, 40, 45, 25, 50, 40)

C16_Witness ==
    /\ LookedUp
    /\ fnArgs.year = 1800 * YearUnit
    /\ fnResult = EPOCH_DATA_REFERENCE[3].indicators
    /\ EPOCH_DATA_REFERENCE[3].key = "earlyModern"

\* C17: for a year in no epoch interval getEpochDataForYear returns the
\* fallback snapshot, which holds a number for each of the 9 indicators.
C17_FallbackOutsideEpochs ==
    (LookedUp /\ InNoEpoch(fnArgs.year)) =>
        /\ fnResult = Snapshot(100, 45, 8, 30, 70, 60, 20, 100, 50)
        /\ DOMAIN fnResult = Indicators
        /\ \A name \in Indicators : fnResult[name].k = "num"

C17_Witness ==
    /\ LookedUp
    /\ fnArgs.year > 500 * YearUnit
    /\ fnArgs.year < 501 * YearUnit
    /\ fnResult = Snapshot(100, 45, 8, 30, 70, 60, 20, 100, 50)

C20_ForwardExtrapolation ==
    Returned =>
        \A i \in 2..Len(periods) : \A name \in Indicators :
            ( /\ Supplied(periods[i - 1], name).k = "num"
              /\ Supplied(periods[i - 1], name).v >= 0
              /\ IsMissing(Supplied(periods[i], name))
              /\ (i = Len(periods) \/ IsMissing(Supplied(periods[i + 1], name))) ) =>
                LET change == calculatePercentageChange(stageB[periods[i - 1]].cth,
                                                        stageB[periods[i]].cth)
                IN  result.data[periods[i]].indicators[name] =
                        applyLimits(name, Num((Supplied(periods[i - 1], name).v
                                               * (ONE + change.v)) \div ONE))

\* the representative year of a period as the documentation of Step 1 gives it
RepresentativeYear(p) ==
    CASE p = "before" -> eventStartYear.v - 12
      [] p = "prelude" -> eventStartYear.v - 1
      [] p = "during" -> (eventStartYear.v + eventEndYear.v) \div 2
      [] p = "transition" -> eventEndYear.v + 1
      [] p = "after" -> eventEndYear.v + 12

\* the snapshot of the table as written in the source for a whole year
EpochSeed(year) ==
    IF InNoEpoch(year * YearUnit)
    THEN Snapshot(100, 45, 8, 30, 70, 60, 20, 100, 50)
    ELSE EPOCH_DATA_REFERENCE[CHOOSE n \in 1..Len(EPOCH_DATA_REFERENCE) :
                                  InEpoch(year * YearUnit, n)].indicators

StageADone == pc \in {"step2", "step3", "step5", "done"}

\* C21: an indicator supplied as b in the following period, not supplied in
\* the period and not supplied in the preceding period (or the period is the
\* first) is b / (1 + p), clamped, in the result, p being the percentage change
\* of the provisional score from the period to the following one (b when 1 + p = 0).
C21_BackwardExtrapolation ==
    Returned =>
        \A i \in 1..(Len(periods) - 1) : \A name \in Indicators :
            ( /\ Supplied(periods[i + 1], name).k = "num"
              /\ Supplied(periods[i + 1], name).v >= 0
              /\ IsMissing(Supplied(periods[i], name))
              /\ (i = 1 \/ IsMissing(Supplied(periods[i - 1], name))) ) =>
                LET change == calculatePercentageChange(stageB[periods[i]].cth,
                                                        stageB[periods[i + 1]].cth)
                    b == Supplied(periods[i + 1], name)
                IN  result.data[periods[i]].indicators[name] =
                        applyLimits(name, IF ONE + change.v = 0
                                          THEN b
                                          ELSE Num((b.v * ONE) \div (ONE + change.v)))

C23_SeedsFromOwnRepresentativeYear ==
    StageADone =>
        \A p \in Periods : \A name \in Indicators :
            stageA[p].indicators[name] =
                IF IsMissing(Supplied(p, name))
                THEN EpochSeed(RepresentativeYear(p))[name]
                ELSE Supplied(p, name)

C23_Witness ==
    /\ pc = "step2"
    /\ eventStartYear = Num(-2990)
    /\ eventEndYear = Num(513)
    /\ \E name \in Indicators :
          /\ IsMissing(Supplied("before", name))
          /\ IsMissing(Supplied("prelude", name))
          /\ IsMissing(Supplied("during", name))
          /\ stageA["before"].indicators[name] = FallbackSnapshot[name]
          /\ stageA["prelude"].indicators[name] = EPOCH_DATA_REFERENCE[1].indicators[name]
          /\ stageA["during"].indicators[name] = EPOCH_DATA_REFERENCE[1].indicators[name]
          /\ stageA["transition"].indicators = EPOCH_DATA_REFERENCE[2].indicators

\* C24: calculatePercentageChange(a, b) is (b - a) / a for a non-zero number a
\* and a number b, and 0 when a is 0 or a or b is no valid number; the deltas
\* of Step 2 are numbers, 0 where the earlier provisional score is 0.
C24_PercentageChangeGuarded ==
    /\ fn = "calculatePercentageChange" =>
          LET a == fnArgs.val1
              b == fnArgs.val2
          IN  /\ (~IsValidNumber(a) \/ a = Num(0) \/ ~IsValidNumber(b)) => fnResult = Num(0)
              /\ (a.k = "num" /\ a.v > 0 /\ b.k = "num") =>
                    /\ fnResult.k = "num"
                    /\ fnResult.v * a.v <= (b.v - a.v) * ONE
                    /\ (fnResult.v + 1) * a.v > (b.v - a.v) * ONE
              /\ (a.k = "num" /\ a.v < 0 /\ b.k = "num") =>
                    /\ fnResult.k = "num"
                    /\ fnResult.v * a.v >= (b.v - a.v) * ONE
                    /\ (fnResult.v + 1) * a.v < (b.v - a.v) * ONE
              /\ (a.k = "num" /\ a.v # 0 /\ b.k = "inf") =>
                    fnResult = IF a.v > 0 THEN PosInf ELSE NegInf
              /\ (a.k = "inf" /\ IsValidNumber(b)) => fnResult = NaN
    /\ pc \in {"step3", "step5", "done"} =>
          \A n \in 1..(Len(periods) - 1) :
              /\ deltaCTHs[n].k = "num"
              /\ stageB[periods[n]].cth = Num(0) => deltaCTHs[n] = Num(0)

C24_Witness ==
    /\ pc = "step3"
    /\ stageB["during"].cth = Num(0)
    /\ stageB["transition"].cth.k = "num"
    /\ stageB["transition"].cth.v > 0
    /\ deltaCTHs[3] = Num(0)
    /\ deltaCTHs[2] = Num(0 - ONE)

\* analyzeEventCTH on the sample of initial data
AnalyzeSample ==
    /\ pc = "idle"
    /\ fn = "none"
    /\ \E years \in YearPairs, data \in SampleInputs : Enter(years[1], years[2], data)
    /\ previous' = NoResult
    /\ reruns' = 0

PipelineNext ==
    \/ AnalyzeSample
    \/ AnalyzeAgain
    \/ Step1
    \/ Step2
    \/ Step3
    \/ Step4
    \/ Step5
    \/ Release

\* Steps 1 to 5 run one after the other without waiting for anything, so each
\* is taken once it is enabled. For Step2 and Step5 weak fairness is written
\* out, their enabling conditions being pc = "step2" and pc = "step5".
PipelineFairness ==
    /\ WF_vars(Step1)
    /\ ([]<>(pc # "step2") \/ []<><<Step2>>_vars)
    /\ WF_vars(Step3)
    /\ WF_vars(Step4)
    /\ ([]<>(pc # "step5") \/ []<><<Step5>>_vars)

FairSpec == Init /\ [][PipelineNext]_vars /\ PipelineFairness

\* C25: Step 3 makes at most 3 passes and every call that passes the input
\* validation reaches the final scoring and returns.
C25_PipelineTerminates ==
    /\ [](pass \in 0..3)
    /\ [](pc = "step5" => pass = 3)
    /\ (pc = "step1") ~> (pc = "done")

C25_Witness ==
    /\ pc = "done"
    /\ pass = 3
    /\ \A p \in Periods : IsValidNumber(result.data[p].cth)

C28_SuppliedNumberKept ==
    Returned =>
        \A p \in Periods : \A name \in Indicators :
            Supplied(p, name).k = "num" =>
                result.data[p].indicators[name] =
                    Num(IF Supplied(p, name).v < INDICATOR_LIMITS[name].min
                        THEN INDICATOR_LIMITS[name].min
                        ELSE IF Supplied(p, name).v > INDICATOR_LIMITS[name].max
                             THEN INDICATOR_LIMITS[name].max
                             ELSE Supplied(p, name).v)

C28_Witness ==
    /\ Returned
    /\ eventStartYear = Num(1789)
    /\ Supplied("after", "literacyRate") = Hi("literacyRate")
    /\ result.data["after"].indicators["literacyRate"] = Hi("literacyRate")
    /\ EPOCH_DATA_REFERENCE[4].indicators["literacyRate"] # Hi("literacyRate")

PhaseResult(p) ==
    LET seeded == SeedPeriod(CopyIndicators(argAtCall, p),
                             getEpochDataForYear(periodYear(p, eventStartYear.v, eventEndYear.v)
                                                 * YearUnit))
        limited == [name \in Indicators |-> LimitCell(name, seeded[name])]
    IN  [indicators |-> limited, cth |-> calculateCTHFromIndicators(Obj(limited), NotObj)]

====
